---- MODULE Spec2Model ----
(***************************************************************************)
(* Model of chemo-streamlit-app.py: the Streamlit script that extracts a   *)
(* chemotherapy regimen from uploaded PDF templates with a completion      *)
(* call, stores it in st.session_state and validates its medications       *)
(* against the FDB drug-knowledge service.                                 *)
(*                                                                         *)
(* Python values are modelled as follows.  A dict is a function whose      *)
(* domain is its key set; a list is a sequence.  The JSON value returned   *)
(* by json.loads is tagged with its Python type at the top level, because  *)
(* the code applies truthiness and the `in` operator to it.  A dict whose  *)
(* insertion order is observable (validation_results) is a record          *)
(* [order, entry].                                                         *)
(***************************************************************************)
EXTENDS Integers, Sequences, FiniteSets, TLC

VARIABLES
    json_outputs,       \* st.session_state['json_outputs']: file name -> parsed reply
    fdb_validation,     \* st.session_state['fdb_validation']: file name -> validation_results
    uploaded_files,     \* the file_uploader widget's value in the current run
    fdb_client_id,      \* sidebar text input ("" when left empty)
    fdb_client_secret,  \* sidebar text input ("" when left empty)
    pc,                 \* "idle": no script run in progress; "loop": inside the for loop of main
    idx,                \* number of loop iterations of the current run that have executed
    last,               \* what the latest loop iteration did: file, collaborator answers, exception
    calls,              \* requests the latest loop iteration issued, in order
    shown,              \* st.error / st.code output of the latest loop iteration
    outcome,            \* per file name, how its latest processed iteration ended
    healthy,            \* files whose collaborators all answer successfully in the current run
    regimen_data,       \* argument of the validate_regimen_with_fdb call under study
    svcA,               \* knowledge-service answers, per medication occurrence, first run
    svcB,               \* knowledge-service answers, per medication occurrence, second run
    retA,               \* what validate_regimen_with_fdb returned under svcA
    retB,               \* what validate_regimen_with_fdb returned under svcB
    vpc,                \* "call" before validate_regimen_with_fdb has run, "returned" after
    calendar            \* what the Treatment Calendar tab rendered for regimen_data

mainVars == <<json_outputs, fdb_validation, uploaded_files, fdb_client_id,
              fdb_client_secret, pc, idx, last, calls, shown, outcome, healthy>>
validateVars == <<regimen_data, svcA, svcB, retA, retB, vpc>>
calendarVars == <<calendar>>
vars == <<mainVars, validateVars, calendarVars>>

(***************************************************************************)
(* Python dicts and JSON values                                            *)
(***************************************************************************)
EmptyDict == <<>>

Has(d, k) == k \in DOMAIN d

Get(d, k, default) == IF k \in DOMAIN d THEN d[k] ELSE default

\* An item assignment that rebinds the dict to one holding only the new item.
DictSet_fresh(d, k, v) == [x \in {k} |-> v]

DictSet(d, k, v) == [x \in DOMAIN d \cup {k} |-> IF x = k THEN v ELSE d[x]]

JNull == [t |-> "null"]
JNum(n) == [t |-> "num", n |-> n]
JDict(d) == [t |-> "dict", v |-> d]

\* The guard without the `not regimen_data` test.
Truthy_unchecked(x) == TRUE

\* Python truth value of a parsed JSON value (`not regimen_data`).
Truthy(x) ==
    CASE x.t = "null" -> FALSE
      [] x.t = "num"  -> x.n # 0
      [] x.t = "dict" -> DOMAIN x.v # {}

\* An insertion-ordered dict: assigning to an existing key keeps its position.
EmptyOD == [order |-> <<>>, entry |-> EmptyDict]

ODKeys(od) == DOMAIN od.entry

\* A dict assignment that rebinds the whole dict to the single new item.
ODSet_rebind(od, k, v) == [order |-> <<k>>, entry |-> DictSet(EmptyDict, k, v)]

ODSet(od, k, v) ==
    [order |-> IF k \in DOMAIN od.entry THEN od.order ELSE Append(od.order, k),
     entry |-> DictSet(od.entry, k, v)]

(***************************************************************************)
(* Regimens the completion collaborator may describe                       *)
(***************************************************************************)
Med(n, d) == [name |-> n, dose |-> d]

Ondansetron == Med("Ondansetron", "8mg")
Docetaxel == Med("Docetaxel", "75mg/m2")
DocetaxelAlt == Med(" docetaxel", "75mg/m2")
Cisplatin == Med("Cisplatin", "50mg/m2")
Nameless == [dose |-> "10mg"]

MedNames == {"Ondansetron", "Docetaxel", " docetaxel", "Cisplatin"}

Day(pre, chemo, targeted) ==
    [pretreatmentMedications |-> pre, chemotherapy |-> chemo, targetedTherapy |-> targeted]

Regimen(cycle) == JDict([phase1 |-> [treatmentTemplate |-> [cycle |-> cycle]]])

\* The end-to-end scenario of the documentation: 21 days, two drugs on day 1.
RegimenTwoDrugs ==
    Regimen([duration |-> [numberOfDays |-> 21],
             medications |-> [day1 |-> Day(<<Ondansetron>>, <<Docetaxel>>, <<>>)]])

\* One drug named in two groups of day 1.
RegimenRepeat ==
    Regimen([duration |-> [numberOfDays |-> 21],
             medications |-> [day1 |-> Day(<<Docetaxel>>, <<Docetaxel>>, <<>>)]])

\* Two spellings of one drug; a second scheduled day; no duration; no pretreatment key.
RegimenSpelling ==
    Regimen([medications |->
               [day1 |-> [chemotherapy |-> <<Docetaxel>>, targetedTherapy |-> <<DocetaxelAlt>>],
                day2 |-> [chemotherapy |-> <<Cisplatin>>]]])

\* Three occurrences: a drug, another one, the first again.
RegimenThree ==
    Regimen([duration |-> [numberOfDays |-> 2],
             medications |-> [day1 |-> Day(<<Docetaxel>>, <<Ondansetron>>, <<Docetaxel>>)]])

\* Four occurrences of three drugs.
RegimenFour ==
    Regimen([duration |-> [numberOfDays |-> 21],
             medications |->
                 [day1 |-> Day(<<Ondansetron>>, <<Docetaxel, Cisplatin>>, <<Docetaxel>>)]])

\* A medication without a name after a well-formed one.
RegimenNameless ==
    Regimen([duration |-> [numberOfDays |-> 21],
             medications |-> [day1 |-> Day(<<>>, <<Docetaxel, Nameless>>, <<>>)]])

\* A day 1 without medications.
RegimenNoMeds ==
    Regimen([duration |-> [numberOfDays |-> 21], medications |-> [day1 |-> EmptyDict]])

JEmpty == JDict(EmptyDict)
JNoPhase1 == JDict([phases |-> <<>>])
JPhase1Empty == JDict([phase1 |-> EmptyDict])
JNoDay1 == Regimen([duration |-> [numberOfDays |-> 21], medications |-> EmptyDict])

(***************************************************************************)
(* The drug-knowledge service (FDB) and make_fdb_request                   *)
(***************************************************************************)
\* What the service does with the three requests made for one medication
\* occurrence.  "error" is a network/HTTP failure (requests raises a
\* RequestException), "zero" a successful search with no item, "hit" a
\* successful search with one item.  The interactions and dosing answers are
\* consulted only after a hit.
Answers ==
    {a \in [search : {"error", "zero", "hit"},
            interactions : {"error", "ok"},
            dosing : {"error", "ok"}] :
        a.search # "hit" => (a.interactions = "ok" /\ a.dosing = "ok")}

AllOk == [search |-> "hit", interactions |-> "ok", dosing |-> "ok"]

\* The service's catalogue: the identifier of the best match for a search text.
DrugID(searchtext) ==
    CASE searchtext = "Ondansetron" -> "FDB-OND"
      [] searchtext = "Docetaxel"   -> "FDB-DOC"
      [] searchtext = " docetaxel"  -> "FDB-DOC"
      [] searchtext = "Cisplatin"   -> "FDB-CIS"

HttpError == [exc |-> "RequestException", status_code |-> 503]
HttpOk(body) == [exc |-> "none", json |-> body, status_code |-> 200]

SearchResponse(answer, searchtext) ==
    CASE answer = "error" -> HttpError
      [] answer = "zero"  -> HttpOk([Items |-> <<>>])
      [] answer = "hit"   ->
            HttpOk([Items |-> <<[PrescribableDrugID |-> DrugID(searchtext),
                                  DispensableGenericDesc |-> searchtext]>>])

InteractionsResponse(answer, drug_id) ==
    IF answer = "error" THEN HttpError
    ELSE HttpOk([Interactions |-> <<>>, ForDrug |-> drug_id])

DoseRecordsResponse(answer, drug_id) ==
    IF answer = "error" THEN HttpError
    ELSE HttpOk([DoseRecords |-> <<[DoseDescription |-> "per protocol"]>>, ForDrug |-> drug_id])

\* A request as it appears in the log of issued requests.  `med` and `occ`
\* name the medication and the position in all_meds the request was made for.
Request(endpoint, arg, med, occ) ==
    [endpoint |-> endpoint, arg |-> arg, med |-> med, occ |-> occ]

\* The except clause narrowed so that the exception escapes the function.
make_fdb_request_uncaught(response) ==
    IF response.exc = "none"
    THEN [exc |-> "none",
          ret |-> [status |-> "success", data |-> response.json,
                   status_code |-> response.status_code]]
    ELSE [exc |-> response.exc]

\* make_fdb_request: the result dict, or the exception that escapes.
make_fdb_request(response) ==
    CASE response.exc = "none" ->
            [exc |-> "none",
             ret |-> [status |-> "success", data |-> response.json,
                      status_code |-> response.status_code]]
      [] response.exc = "RequestException" ->
            [exc |-> "none",
             ret |-> [status |-> "error", message |-> "RequestException",
                      status_code |-> response.status_code]]
      [] OTHER -> [exc |-> response.exc]

(***************************************************************************)
(* validate_regimen_with_fdb                                               *)
(***************************************************************************)
Returned(validation_results, issued) ==
    [exc |-> "none", validation_results |-> validation_results, calls |-> issued]

Raised(exception, issued) == [exc |-> exception, calls |-> issued]

\* Whether regimen_data['phase1']['treatmentTemplate']['cycle']['medications']['day1']
\* can be evaluated without a KeyError.
HasDay1(data) ==
    /\ data.t = "dict"
    /\ Has(data.v, "phase1")
    /\ Has(data.v["phase1"], "treatmentTemplate")
    /\ Has(data.v["phase1"]["treatmentTemplate"], "cycle")
    /\ Has(data.v["phase1"]["treatmentTemplate"]["cycle"], "medications")
    /\ Has(data.v["phase1"]["treatmentTemplate"]["cycle"]["medications"], "day1")

\* all_meds: the three day-1 groups concatenated (<<>> when day 1 cannot be read).
AllMeds(data) ==
    IF HasDay1(data)
    THEN LET medications ==
                 data.v["phase1"]["treatmentTemplate"]["cycle"]["medications"]["day1"]
         IN Get(medications, "pretreatmentMedications", <<>>)
              \o Get(medications, "chemotherapy", <<>>)
              \o Get(medications, "targetedTherapy", <<>>)
    ELSE <<>>

\* The for loop over all_meds, from occurrence i on.
RECURSIVE ValidateMeds(_, _, _, _, _)
ValidateMeds(all_meds, svc, i, validation_results, issued) ==
    IF i > Len(all_meds) THEN Returned(validation_results, issued)
    ELSE
    LET med == all_meds[i] IN
    IF ~Has(med, "name") THEN Raised("KeyError", issued)
    ELSE
    LET med_name == med["name"]
        issued1 == Append(issued, Request("PrescribableDrugs", med_name, med_name, i))
        call1 == make_fdb_request(SearchResponse(svc[i].search, med_name))
    IN
    IF call1.exc # "none" THEN Raised(call1.exc, issued1)
    ELSE
    LET result == call1.ret IN
    IF /\ result["status"] = "success"
       /\ Has(result, "data")
       /\ Has(result["data"], "Items")
       /\ Len(result["data"]["Items"]) > 0
    THEN
        LET drug_data == result["data"]
            drug_id == drug_data["Items"][1]["PrescribableDrugID"]
            issued2 == Append(issued1, Request("Interactions", drug_id, med_name, i))
            call2 == make_fdb_request(InteractionsResponse(svc[i].interactions, drug_id))
            issued3 == Append(issued2, Request("DoseRecords", drug_id, med_name, i))
            call3 == make_fdb_request(DoseRecordsResponse(svc[i].dosing, drug_id))
        IN
        IF call2.exc # "none" THEN Raised(call2.exc, issued2)
        ELSE IF call3.exc # "none" THEN Raised(call3.exc, issued3)
        ELSE
            ValidateMeds(all_meds, svc, i + 1,
                ODSet(validation_results, med_name,
                      [drug_info |-> drug_data["Items"][1],
                       interactions |-> Get(call2.ret, "data", EmptyDict),
                       dosing |-> Get(call3.ret, "data", EmptyDict)]),
                issued3)
    ELSE ValidateMeds(all_meds, svc, i + 1, validation_results, issued1)

\* svc[i] holds the service's answers for the i-th element of all_meds.  The
\* credentials only travel in the Authorization header and are not modelled
\* as parameters.
validate_regimen_with_fdb(data, svc) ==
    IF ~Truthy(data) THEN Returned(EmptyOD, <<>>)
    ELSE IF data.t # "dict" THEN Raised("TypeError", <<>>)
    ELSE IF ~Has(data.v, "phase1") THEN Returned(EmptyOD, <<>>)
    ELSE IF ~HasDay1(data) THEN Raised("KeyError", <<>>)
    ELSE ValidateMeds(AllMeds(data), svc, 1, EmptyOD, <<>>)

\* The answer vectors the service can give for the occurrences of a regimen.
SvcFor(data) == [1..Len(AllMeds(data)) -> Answers]

(***************************************************************************)
(* The PDF and completion collaborators                                    *)
(***************************************************************************)
Docs == {"a.pdf", "b.pdf"}

\* The most files one upload holds.
MaxFiles == 2

\* Values of the file_uploader widget: the uploaded files, in upload order.
\* The widget accepts two files of the same name.
Uploads == UNION {[1..n -> Docs] : n \in 0..MaxFiles}

ClientIds == {"", "client-id"}
ClientSecrets == {"", "client-secret"}

\* What PyPDF2 makes of an uploaded file: pages with text, one page without
\* text, no page at all, or an exception (corrupt or encrypted file).
PdfKinds == {"pages", "blank_page", "zero_pages", "corrupt"}

\* An except branch that returns the error message as the text.
process_pdf_message(pdf) ==
    CASE pdf = "pages"      -> [text |-> "Cycle 1, Day 1\n", errors |-> <<>>]
      [] pdf = "blank_page" -> [text |-> "\n", errors |-> <<>>]
      [] pdf = "zero_pages" -> [text |-> "", errors |-> <<>>]
      [] pdf = "corrupt"    -> [text |-> "Error processing PDF",
                                errors |-> <<"Error processing PDF">>]

\* process_pdf: page texts joined with "\n"; any exception is reported with
\* st.error and "" is returned.
process_pdf(pdf) ==
    CASE pdf = "pages"      -> [text |-> "Cycle 1, Day 1\n", errors |-> <<>>]
      [] pdf = "blank_page" -> [text |-> "\n", errors |-> <<>>]
      [] pdf = "zero_pages" -> [text |-> "", errors |-> <<>>]
      [] pdf = "corrupt"    -> [text |-> "", errors |-> <<"Error processing PDF">>]

\* The text of a completion reply: prose, the serialisation of a JSON
\* document, or such a serialisation cut off before its end.
Prose == [kind |-> "prose", text |-> "not json"]
Json(doc) == [kind |-> "json", doc |-> doc]
Truncated(doc) == [kind |-> "truncated", doc |-> doc]

\* A parser that completes a cut-off document instead of rejecting it.
json_loads_repairing(reply) ==
    IF reply.kind \in {"json", "truncated"}
    THEN [exc |-> "none", value |-> reply.doc]
    ELSE [exc |-> "JSONDecodeError"]

\* json.loads: the document when the whole text is one JSON document.
json_loads(reply) ==
    IF reply.kind = "json"
    THEN [exc |-> "none", value |-> reply.doc]
    ELSE [exc |-> "JSONDecodeError"]

\* Documents with the complete phase1 ... day1 structure and named medications.
FullRegimens == {RegimenRepeat}

Replies ==
    {Prose, Truncated(RegimenRepeat)}
      \cup {Json(doc) : doc \in {JEmpty, JNum(5), JPhase1Empty} \cup FullRegimens}

\* client.messages.create raises (authentication, network, rate limit).
ApiError == [kind |-> "raised", exc |-> "APIError"]

(***************************************************************************)
(* main: one script run                                                    *)
(***************************************************************************)
NoReply == [kind |-> "unused"]

NoIteration == [file |-> "", path |-> "none", pdf |-> "unused", reply |-> NoReply, svc |-> <<>>]

Iteration(file, path, pdf, reply, svc) ==
    [file |-> file, path |-> path, pdf |-> pdf, reply |-> reply, svc |-> svc]

\* The collaborators of a file in `healthy` answer successfully throughout.
PdfChoices(file) == IF file \in healthy THEN {"pages"} ELSE PdfKinds
ReplyChoices(file) == IF file \in healthy THEN {Json(doc) : doc \in FullRegimens} ELSE Replies
SvcChoices(file, data) ==
    IF file \in healthy THEN {[i \in 1..Len(AllMeds(data)) |-> AllOk]} ELSE SvcFor(data)
MayFail(file) == file \notin healthy

ExtractCall(file) == Request("extract_text", file, "", 0)
CompleteCall(file) == Request("messages.create", file, "", 0)

\* The skip test requiring a stored validation as well.
AlreadyStored_both(name, outputs, validations) ==
    name \in DOMAIN outputs /\ name \in DOMAIN validations

\* `uploaded_file.name not in st.session_state['json_outputs']`, negated.
AlreadyStored_validated(name, outputs, validations) == name \in DOMAIN validations

AlreadyStored(name, outputs, validations) == name \in DOMAIN outputs

\* The credential test written with `or`.
HaveCredentials_either(client_id, client_secret) == client_id # "" \/ client_secret # ""

\* `if fdb_client_id and fdb_client_secret`
HaveCredentials(client_id, client_secret) == client_id # "" /\ client_secret # ""

\* The calendar tab has not rendered anything.
NotRendered == [exc |-> "not rendered", entries |-> <<>>]

Init ==
    /\ json_outputs = EmptyDict
    /\ fdb_validation = EmptyDict
    /\ uploaded_files = <<>>
    /\ fdb_client_id = ""
    /\ fdb_client_secret = ""
    /\ pc = "idle"
    /\ idx = 0
    /\ last = NoIteration
    /\ calls = <<>>
    /\ shown = <<>>
    /\ outcome = [d \in Docs |-> "Uploaded"]
    /\ healthy = {}
    /\ regimen_data = JNull
    /\ svcA = <<>>
    /\ svcB = <<>>
    /\ retA = [exc |-> "not called", calls |-> <<>>]
    /\ retB = [exc |-> "not called", calls |-> <<>>]
    /\ vpc = "unused"
    /\ calendar = NotRendered

\* A script run starts: the widgets are read.
StartRun ==
    /\ pc = "idle"
    /\ \E files \in Uploads, id \in ClientIds, secret \in ClientSecrets :
         /\ uploaded_files' = files
         /\ fdb_client_id' = id
         /\ fdb_client_secret' = secret
         /\ \E h \in SUBSET {files[i] : i \in DOMAIN files} : healthy' = h
    /\ pc' = "loop"
    /\ idx' = 0
    /\ last' = NoIteration
    /\ calls' = <<>>
    /\ shown' = <<>>
    /\ UNCHANGED <<json_outputs, fdb_validation, outcome, validateVars, calendarVars>>

InLoop == pc = "loop" /\ idx < Len(uploaded_files)

Current == uploaded_files[idx + 1]

\* Line 213 is false: the file name is already a key of json_outputs.
SkipFile ==
    /\ InLoop
    /\ AlreadyStored(Current, json_outputs, fdb_validation)
    /\ idx' = idx + 1
    /\ last' = Iteration(Current, "skipped", "unused", NoReply, <<>>)
    /\ calls' = <<>>
    /\ shown' = <<>>
    /\ UNCHANGED <<json_outputs, fdb_validation, uploaded_files, fdb_client_id,
                   fdb_client_secret, pc, outcome, healthy, validateVars, calendarVars>>

\* Line 218 is false: process_pdf returned "".
ExtractFails ==
    /\ InLoop
    /\ ~AlreadyStored(Current, json_outputs, fdb_validation)
    /\ \E pdf \in PdfChoices(Current) :
         /\ process_pdf(pdf).text = ""
         /\ last' = Iteration(Current, "extraction_failed", pdf, NoReply, <<>>)
         /\ shown' = process_pdf(pdf).errors
    /\ idx' = idx + 1
    /\ calls' = <<ExtractCall(Current)>>
    /\ outcome' = [outcome EXCEPT ![Current] = "ExtractionFailed"]
    /\ UNCHANGED <<json_outputs, fdb_validation, uploaded_files, fdb_client_id,
                   fdb_client_secret, pc, healthy, validateVars, calendarVars>>

\* client.messages.create raises: nothing in main catches it, the run ends.
CompletionRaises ==
    /\ InLoop
    /\ ~AlreadyStored(Current, json_outputs, fdb_validation)
    /\ MayFail(Current)
    /\ \E pdf \in PdfChoices(Current) :
         /\ process_pdf(pdf).text # ""
         /\ last' = Iteration(Current, "completion_raised", pdf, ApiError, <<>>)
    /\ idx' = idx + 1
    /\ pc' = "idle"
    /\ calls' = <<ExtractCall(Current), CompleteCall(Current)>>
    /\ shown' = <<>>
    /\ outcome' = [outcome EXCEPT ![Current] = "Raised"]
    /\ UNCHANGED <<json_outputs, fdb_validation, uploaded_files, fdb_client_id,
                   fdb_client_secret, healthy, validateVars, calendarVars>>

\* Lines 246-248: json.loads raises JSONDecodeError.
ParseFails ==
    /\ InLoop
    /\ ~AlreadyStored(Current, json_outputs, fdb_validation)
    /\ \E pdf \in PdfChoices(Current), reply \in ReplyChoices(Current) :
         /\ process_pdf(pdf).text # ""
         /\ json_loads(reply).exc = "JSONDecodeError"
         /\ last' = Iteration(Current, "parse_failed", pdf, reply, <<>>)
         /\ shown' = <<"Failed to parse JSON", reply>>
    /\ idx' = idx + 1
    /\ calls' = <<ExtractCall(Current), CompleteCall(Current)>>
    /\ outcome' = [outcome EXCEPT ![Current] = "ParseFailed"]
    /\ UNCHANGED <<json_outputs, fdb_validation, uploaded_files, fdb_client_id,
                   fdb_client_secret, pc, healthy, validateVars, calendarVars>>

\* Lines 234-238 with a credential missing: the parsed reply is stored.
StoreOnly ==
    /\ InLoop
    /\ ~AlreadyStored(Current, json_outputs, fdb_validation)
    /\ ~HaveCredentials(fdb_client_id, fdb_client_secret)
    /\ \E pdf \in PdfChoices(Current), reply \in ReplyChoices(Current) :
         /\ process_pdf(pdf).text # ""
         /\ json_loads(reply).exc = "none"
         /\ json_outputs' = DictSet(json_outputs, Current, json_loads(reply).value)
         /\ last' = Iteration(Current, "stored", pdf, reply, <<>>)
    /\ idx' = idx + 1
    /\ calls' = <<ExtractCall(Current), CompleteCall(Current)>>
    /\ shown' = <<>>
    /\ outcome' = [outcome EXCEPT ![Current] = "Ready"]
    /\ UNCHANGED <<fdb_validation, uploaded_files, fdb_client_id,
                   fdb_client_secret, pc, healthy, validateVars, calendarVars>>

\* Lines 234-244 with both credentials: the parsed reply is stored, then
\* validate_regimen_with_fdb runs; an exception it raises ends the run.
StoreAndValidate ==
    /\ InLoop
    /\ ~AlreadyStored(Current, json_outputs, fdb_validation)
    /\ HaveCredentials(fdb_client_id, fdb_client_secret)
    /\ \E pdf \in PdfChoices(Current), reply \in ReplyChoices(Current) :
         /\ process_pdf(pdf).text # ""
         /\ json_loads(reply).exc = "none"
         /\ LET extracted_data == json_loads(reply).value IN
            \E svc \in SvcChoices(Current, extracted_data) :
              LET v == validate_regimen_with_fdb(extracted_data, svc) IN
              /\ json_outputs' = DictSet(json_outputs, Current, extracted_data)
              /\ calls' = <<ExtractCall(Current), CompleteCall(Current)>> \o v.calls
              /\ IF v.exc = "none"
                 THEN /\ fdb_validation' =
                            DictSet(fdb_validation, Current, v.validation_results)
                      /\ last' = Iteration(Current, "validated", pdf, reply, svc)
                      /\ outcome' = [outcome EXCEPT ![Current] = "Ready"]
                      /\ pc' = pc
                 ELSE /\ fdb_validation' = fdb_validation
                      /\ last' = Iteration(Current, "validate_raised", pdf, reply, svc)
                      /\ outcome' = [outcome EXCEPT ![Current] = "Raised"]
                      /\ pc' = "idle"
    /\ idx' = idx + 1
    /\ shown' = <<>>
    /\ UNCHANGED <<uploaded_files, fdb_client_id, fdb_client_secret, healthy, validateVars, calendarVars>>

\* The for loop is exhausted; the rest of the script only renders.
EndRun ==
    /\ pc = "loop"
    /\ idx = Len(uploaded_files)
    /\ pc' = "idle"
    /\ UNCHANGED <<json_outputs, fdb_validation, uploaded_files, fdb_client_id,
                   fdb_client_secret, idx, last, calls, shown, outcome, healthy,
                   validateVars, calendarVars>>

Next ==
    \/ StartRun
    \/ SkipFile
    \/ ExtractFails
    \/ CompletionRaises
    \/ ParseFails
    \/ StoreOnly
    \/ StoreAndValidate
    \/ EndRun

Spec == Init /\ [][Next]_vars

(***************************************************************************)
(* validate_regimen_with_fdb on its own: one regimen, validated twice      *)
(* against two behaviours of the knowledge service that differ in the      *)
(* answers for at most one drug name.                                      *)
(***************************************************************************)
\* The most medication occurrences on day 1 of a validated regimen.
MaxMeds == 3

ValidateInputs ==
    {data \in {JNull, JEmpty, JNum(5), JNoPhase1, JPhase1Empty, JNoDay1,
               RegimenTwoDrugs, RegimenRepeat, RegimenSpelling, RegimenThree,
               RegimenFour, RegimenNameless, RegimenNoMeds} :
        Len(AllMeds(data)) <= MaxMeds}

\* The name of the i-th element of all_meds ("" when it has none).
OccName(data, i) == Get(AllMeds(data)[i], "name", "")

\* The positions in all_meds of the medications named `drug`.
Occurrences(data, drug) == {i \in 1..Len(AllMeds(data)) : OccName(data, i) = drug}

\* svc and svc2 agree on every occurrence that is not named `drug`.
DifferOnlyFor(data, drug, svc, svc2) ==
    \A i \in 1..Len(AllMeds(data)) : OccName(data, i) # drug => svc[i] = svc2[i]

NotCalled == Raised("not called", <<>>)

InitValidate ==
    /\ json_outputs = EmptyDict
    /\ fdb_validation = EmptyDict
    /\ uploaded_files = <<>>
    /\ fdb_client_id = ""
    /\ fdb_client_secret = ""
    /\ pc = "idle"
    /\ idx = 0
    /\ last = NoIteration
    /\ calls = <<>>
    /\ shown = <<>>
    /\ outcome = [d \in Docs |-> "Uploaded"]
    /\ healthy = {}
    /\ regimen_data \in ValidateInputs
    /\ svcA \in SvcFor(regimen_data)
    /\ \E drug \in MedNames :
         \E other \in [Occurrences(regimen_data, drug) -> Answers] :
            svcB = [i \in 1..Len(AllMeds(regimen_data)) |->
                       IF i \in DOMAIN other THEN other[i] ELSE svcA[i]]
    /\ retA = NotCalled
    /\ retB = NotCalled
    /\ vpc = "call"
    /\ calendar = NotRendered

Validate ==
    /\ vpc = "call"
    /\ retA' = validate_regimen_with_fdb(regimen_data, svcA)
    /\ retB' = validate_regimen_with_fdb(regimen_data, svcB)
    /\ vpc' = "returned"
    /\ UNCHANGED <<mainVars, regimen_data, svcA, svcB, calendarVars>>

NextValidate == Validate

SpecValidate == InitValidate /\ [][NextValidate]_vars

(***************************************************************************)
(* Properties of a script run                                              *)
(***************************************************************************)
KnowledgeEndpoints == {"PrescribableDrugs", "Interactions", "DoseRecords"}

KnowledgeRequests(issued) ==
    {i \in DOMAIN issued : issued[i].endpoint \in KnowledgeEndpoints}

\* The latest loop iteration called the collaborators for its file.
Processed == last.path \notin {"none", "skipped"}

\* The complete phase1 ... day1 structure, every medication with a name.
ValidRegimen(doc) ==
    /\ HasDay1(doc)
    /\ \A i \in 1..Len(AllMeds(doc)) : Has(AllMeds(doc)[i], "name")

\* What the session state holds for a file.
Stored(d) ==
    [regimen |-> IF d \in DOMAIN json_outputs THEN <<json_outputs[d]>> ELSE <<>>,
     enrichment |-> IF d \in DOMAIN fdb_validation THEN <<fdb_validation[d]>> ELSE <<>>]

\* C1: when a run is over, every file of the batch whose own collaborators
\* answer successfully has its regimen stored, whatever happened to the other
\* files of the batch and wherever they stand in it.
C1_FailureIsolated ==
    pc = "idle" => \A d \in healthy : d \in DOMAIN json_outputs

\* C2: a reply that is not valid JSON leaves the file ParseFailed, with no
\* regimen and no enrichment result stored, no knowledge-service request
\* issued, and the raw reply shown unchanged.
C2_NotJsonIsParseFailed ==
    (Processed /\ last.reply.kind \in {"prose", "truncated"}) =>
        /\ outcome[last.file] = "ParseFailed"
        /\ last.file \notin DOMAIN json_outputs
        /\ last.file \notin DOMAIN fdb_validation
        /\ KnowledgeRequests(calls) = {}
        /\ shown = <<"Failed to parse JSON", last.reply>>

C2_Witness ==
    /\ last.path = "parse_failed"
    /\ last.reply = Truncated(RegimenRepeat)
    /\ outcome[last.file] = "ParseFailed"
    /\ HaveCredentials(fdb_client_id, fdb_client_secret)

\* C3: a reply that is valid JSON without the mandatory regimen structure
\* leaves the file ParseFailed; it is never stored as a regimen and no
\* knowledge-service request is issued for it.
C3_StructurelessIsParseFailed ==
    /\ \A d \in DOMAIN json_outputs : HasDay1(json_outputs[d])
    /\ (Processed /\ last.reply.kind = "json" /\ ~HasDay1(last.reply.doc)) =>
          /\ outcome[last.file] = "ParseFailed"
          /\ last.file \notin DOMAIN fdb_validation

\* C4: a loop iteration over a file that is Ready, ExtractionFailed or
\* ParseFailed issues no call and leaves the file's state and stored data
\* as they were.
C4_TerminalIsNoOp ==
    [][\A d \in Docs :
         (InLoop /\ Current = d /\ idx' = idx + 1
            /\ outcome[d] \in {"Ready", "ExtractionFailed", "ParseFailed"})
         => (calls' = <<>> /\ outcome'[d] = outcome[d] /\ Stored(d)' = Stored(d))]_vars

\* C5: once a file is Ready, no later step changes its stored regimen or its
\* stored enrichment result.
C5_ReadyIsStable ==
    [][\A d \in Docs : outcome[d] = "Ready" => Stored(d)' = Stored(d)]_vars

C5_Witness ==
    /\ last.path = "skipped"
    /\ outcome[last.file] = "Ready"
    /\ last.file \in DOMAIN json_outputs
    /\ last.file \notin DOMAIN fdb_validation
    /\ HaveCredentials(fdb_client_id, fdb_client_secret)

\* C6: with both credentials configured, a file whose reply parsed into a
\* valid regimen ends its iteration Ready, with that regimen and an
\* enrichment map stored, whichever knowledge-service calls failed.
C6_EnrichmentFailuresNotFatal ==
    (/\ Processed
     /\ last.reply.kind = "json"
     /\ ValidRegimen(last.reply.doc)
     /\ HaveCredentials(fdb_client_id, fdb_client_secret)) =>
        /\ outcome[last.file] = "Ready"
        /\ last.file \in DOMAIN json_outputs
        /\ json_outputs[last.file] = last.reply.doc
        /\ last.file \in DOMAIN fdb_validation

C6_Witness ==
    /\ last.path = "validated"
    /\ Len(last.svc) = 2
    /\ last.svc[1].search = "error"
    /\ last.svc[2].search = "hit"
    /\ last.svc[2].interactions = "error"
    /\ last.svc[2].dosing = "error"
    /\ outcome[last.file] = "Ready"
    /\ last.file \in DOMAIN fdb_validation

(***************************************************************************)
(* Properties of validate_regimen_with_fdb                                 *)
(***************************************************************************)
\* The normalized form of a drug name: trimmed, whitespace collapsed, case
\* folded.
Normalize(name) ==
    CASE name = "Ondansetron" -> "ondansetron"
      [] name = "Docetaxel"   -> "docetaxel"
      [] name = " docetaxel"  -> "docetaxel"
      [] name = "Cisplatin"   -> "cisplatin"

Range(seq) == {seq[i] : i \in DOMAIN seq}

\* The medications of every group of every scheduled day of a regimen.
ScheduledMeds(data) ==
    IF /\ data.t = "dict"
       /\ Has(data.v, "phase1")
       /\ Has(data.v["phase1"], "treatmentTemplate")
       /\ Has(data.v["phase1"]["treatmentTemplate"], "cycle")
       /\ Has(data.v["phase1"]["treatmentTemplate"]["cycle"], "medications")
    THEN LET byDay == data.v["phase1"]["treatmentTemplate"]["cycle"]["medications"] IN
         UNION {UNION {Range(byDay[day][group]) : group \in DOMAIN byDay[day]} :
                  day \in DOMAIN byDay}
    ELSE {}

ScheduledNames(data) == {m["name"] : m \in {x \in ScheduledMeds(data) : Has(x, "name")}}

\* The positions in a request log of the requests to an endpoint made for a
\* drug, identified by its normalized name.
RequestsFor(issued, endpoint, drug) ==
    {i \in DOMAIN issued :
        issued[i].endpoint = endpoint /\ Normalize(issued[i].med) = drug}

\* The endpoints requested for the occ-th element of all_meds, in order.
EndpointsOf(issued, occ) ==
    LET RECURSIVE Pick(_)
        Pick(i) == IF i > Len(issued) THEN <<>>
                   ELSE IF issued[i].occ = occ /\ issued[i].endpoint \in KnowledgeEndpoints
                        THEN <<issued[i].endpoint>> \o Pick(i + 1)
                        ELSE Pick(i + 1)
    IN Pick(1)

\* The entry a returned map holds for a name, if any.
EntryOf(ret, name) ==
    IF ret.exc = "none" /\ name \in ODKeys(ret.validation_results)
    THEN <<ret.validation_results.entry[name]>>
    ELSE <<>>

\* A name is marked with a status in the returned map.
Marked(ret, name, status) ==
    /\ ret.exc = "none"
    /\ name \in ODKeys(ret.validation_results)
    /\ Has(ret.validation_results.entry[name], "status")
    /\ ret.validation_results.entry[name]["status"] = status

\* C7: the keys of the returned map are, up to normalization, exactly the
\* distinct normalized medication names of all groups of all scheduled days,
\* one key per normalized name, hence no more keys than occurrences.
C7_KeysAreDistinctNormalizedNames ==
    (vpc = "returned" /\ retA.exc = "none") =>
        LET keys == ODKeys(retA.validation_results)
            names == {Normalize(n) : n \in ScheduledNames(regimen_data)}
        IN /\ {Normalize(k) : k \in keys} = names
           /\ Cardinality(keys) = Cardinality(names)
           /\ Cardinality(keys) <= Cardinality(ScheduledMeds(regimen_data))

\* C8: in one validation of one regimen each distinct normalized drug name is
\* searched at most once and its map entry is written at most once (a write
\* follows each DoseRecords request).
C8_OneSearchPerName ==
    vpc = "returned" =>
        \A drug \in {Normalize(n) : n \in MedNames} :
            /\ Cardinality(RequestsFor(retA.calls, "PrescribableDrugs", drug)) <= 1
            /\ Cardinality(RequestsFor(retA.calls, "DoseRecords", drug)) <= 1

\* C9: for two distinct drugs A and B of a regimen and two validations that
\* differ only in the service's answers for A, the entry for B is the same in
\* both, the requests made for B are the same in both, and the three requests
\* of every resolved occurrence of B are issued.
C9_MedicationsIndependent ==
    vpc = "returned" =>
        \A drugA \in MedNames : \A drugB \in MedNames \ {drugA} :
            DifferOnlyFor(regimen_data, drugA, svcA, svcB) =>
                /\ EntryOf(retA, drugB) = EntryOf(retB, drugB)
                /\ \A i \in 1..Len(AllMeds(regimen_data)) :
                      OccName(regimen_data, i) = drugB =>
                        /\ EndpointsOf(retA.calls, i) = EndpointsOf(retB.calls, i)
                        /\ svcB[i].search = "hit" =>
                              EndpointsOf(retB.calls, i) =
                                  <<"PrescribableDrugs", "Interactions", "DoseRecords">>

C9_Witness ==
    /\ vpc = "returned"
    /\ regimen_data = RegimenThree
    /\ svcA = [i \in 1..3 |-> AllOk]
    /\ svcB[1].search = "error"
    /\ svcB[2] = AllOk
    /\ svcB[3].search = "hit" /\ svcB[3].interactions = "error"
    /\ EntryOf(retB, "Ondansetron") # <<>>
    /\ EntryOf(retA, "Docetaxel") # EntryOf(retB, "Docetaxel")

\* C10: an interactions or dosing request is issued for a medication only
\* after its search succeeded with an item; after a failed or empty search no
\* further request is made for it and the name is marked
\* PartialFailure(Search) or NoMatch.
C10_ChainStopsAndMarks ==
    vpc = "returned" =>
        \A i \in 1..Len(AllMeds(regimen_data)) :
            LET requested == EndpointsOf(retA.calls, i) IN
            requested # <<>> =>
                /\ Len(requested) > 1 =>
                      (svcA[i].search = "hit" /\ requested[1] = "PrescribableDrugs")
                /\ svcA[i].search = "error" =>
                      /\ requested = <<"PrescribableDrugs">>
                      /\ Marked(retA, OccName(regimen_data, i), "PartialFailure(Search)")
                /\ svcA[i].search = "zero" =>
                      /\ requested = <<"PrescribableDrugs">>
                      /\ Marked(retA, OccName(regimen_data, i), "NoMatch")

\* The last occurrence of its name whose search returned an item: the one
\* whose entry the returned map holds.
LastResolved(data, svc, i) ==
    /\ svc[i].search = "hit"
    /\ \A j \in 1..Len(AllMeds(data)) :
          (j > i /\ OccName(data, j) = OccName(data, i)) => svc[j].search # "hit"

\* C11: when the search resolved and the interactions or the dosing call
\* failed, the entry is marked PartialFailure with the failing stage and
\* keeps what was obtained before: the search result, and the interactions
\* when only the dosing call failed.
C11_PartialFailureMarked ==
    (vpc = "returned" /\ retA.exc = "none") =>
        \A i \in 1..Len(AllMeds(regimen_data)) :
            LET name == OccName(regimen_data, i)
                entry == retA.validation_results.entry[name]
            IN
            LastResolved(regimen_data, svcA, i) =>
                /\ svcA[i].interactions = "error" =>
                      /\ Marked(retA, name, "PartialFailure(Interactions)")
                      /\ Has(entry, "drug_info")
                /\ (svcA[i].interactions = "ok" /\ svcA[i].dosing = "error") =>
                      /\ Marked(retA, name, "PartialFailure(Dosing)")
                      /\ Has(entry, "drug_info")
                      /\ entry["interactions"] =
                            InteractionsResponse("ok", DrugID(name)).json

\* C12: when the client id or the client secret is missing, a file whose
\* reply parsed ends its iteration Ready with the parsed regimen stored, no
\* knowledge-service request issued and no enrichment result stored.
C12_NoCredentialsSkipsEnrichment ==
    (/\ Processed
     /\ last.reply.kind = "json"
     /\ (fdb_client_id = "" \/ fdb_client_secret = "")) =>
        /\ outcome[last.file] = "Ready"
        /\ last.file \in DOMAIN json_outputs
        /\ json_outputs[last.file] = last.reply.doc
        /\ KnowledgeRequests(calls) = {}
        /\ last.file \notin DOMAIN fdb_validation

C12_Witness ==
    /\ last.path = "stored"
    /\ last.reply = Json(RegimenRepeat)
    /\ fdb_client_id # ""
    /\ fdb_client_secret = ""
    /\ outcome[last.file] = "Ready"
    /\ calls = <<ExtractCall(last.file), CompleteCall(last.file)>>

\* C13: when PyPDF2 raises on a file or extracts no text from it, the failure
\* is reported and the iteration ends without an exception: the file is
\* ExtractionFailed, only the extraction call was made, and nothing is stored.
C13_ExtractionFailureReported ==
    (Processed /\ last.pdf \in {"corrupt", "zero_pages", "blank_page"}) =>
        /\ last.path = "extraction_failed"
        /\ outcome[last.file] = "ExtractionFailed"
        /\ shown # <<>>
        /\ calls = <<ExtractCall(last.file)>>
        /\ last.file \notin DOMAIN json_outputs

(***************************************************************************)
(* The Treatment Calendar tab                                              *)
(***************************************************************************)
\* One rendered day: the "Day k" heading and the "- name: dose" lines under it.
DayEntry(day, lines) == [day |-> day, meds |-> lines]

\* What was rendered when the script stopped: all of it, or the part before
\* the exception.
Rendered(exception, entries) == [exc |-> exception, entries |-> entries]

\* The inner loops of lines 292-295 over the medications of day 1, from the
\* i-th medication of `meds` on; a medication without name or dose raises.
RECURSIVE RenderMeds(_, _, _)
RenderMeds(meds, i, lines) ==
    IF i > Len(meds) THEN [exc |-> "none", lines |-> lines]
    ELSE IF ~Has(meds[i], "name") \/ ~Has(meds[i], "dose")
         THEN [exc |-> "KeyError", lines |-> lines]
         ELSE RenderMeds(meds, i + 1,
                         Append(lines, [name |-> meds[i]["name"], dose |-> meds[i]["dose"]]))

\* Lines 290-295 for one day: only day 1 lists medications, read from
\* cycle_data['medications']['day1'].
RenderDay(cycle_data, day) ==
    IF day # 1 THEN [exc |-> "none", lines |-> <<>>]
    ELSE IF ~Has(cycle_data, "medications") \/ ~Has(cycle_data["medications"], "day1")
    THEN [exc |-> "KeyError", lines |-> <<>>]
    ELSE LET medications == cycle_data["medications"]["day1"]
             listed == Get(medications, "chemotherapy", <<>>)
                         \o Get(medications, "targetedTherapy", <<>>)
         IN RenderMeds(listed, 1, <<>>)

\* The for loop of line 284, from `day` on.
RECURSIVE RenderDays(_, _, _, _)
RenderDays(cycle_data, cycle_length, day, entries) ==
    IF day > cycle_length THEN Rendered("none", entries)
    ELSE LET r == RenderDay(cycle_data, day)
             shownSoFar == Append(entries, DayEntry(day, r.lines))
         IN IF r.exc # "none" THEN Rendered(r.exc, shownSoFar)
            ELSE RenderDays(cycle_data, cycle_length, day + 1, shownSoFar)

\* Lines 278-295 for the selected template.
Calendar(data) ==
    IF data.t # "dict" THEN Rendered("TypeError", <<>>)
    ELSE IF ~Has(data.v, "phase1") THEN Rendered("none", <<>>)
    ELSE IF \/ ~Has(data.v["phase1"], "treatmentTemplate")
            \/ ~Has(data.v["phase1"]["treatmentTemplate"], "cycle")
    THEN Rendered("KeyError", <<>>)
    ELSE LET cycle_data == data.v["phase1"]["treatmentTemplate"]["cycle"]
             cycle_length == Get(Get(cycle_data, "duration", EmptyDict), "numberOfDays", 28)
         IN RenderDays(cycle_data, cycle_length, 1, <<>>)

\* The longest cycle duration stated in a reply.
MaxDays == 3

\* Day schedules a reply may give for a day.
Day1Schedules ==
    {Day(<<Ondansetron>>, <<Docetaxel>>, <<>>),
     Day(<<>>, <<Docetaxel, Cisplatin>>, <<Docetaxel>>),
     Day(<<>>, <<Cisplatin>>, <<Docetaxel, Ondansetron>>),
     Day(<<>>, <<Docetaxel, Nameless>>, <<>>),
     [chemotherapy |-> <<Docetaxel>>],
     EmptyDict}

Day2Schedules == {[chemotherapy |-> <<Cisplatin>>, targetedTherapy |-> <<Ondansetron>>]}

\* A cycle from an optional duration and optional schedules for days 1 and 2
\* (each option is <<>> or a one-element sequence).
CycleOf(duration, day1, day2) ==
    LET days == (IF day1 = <<>> THEN {} ELSE {"day1"}) \cup
                (IF day2 = <<>> THEN {} ELSE {"day2"})
        medications == [k \in days |-> IF k = "day1" THEN day1[1] ELSE day2[1]]
    IN IF duration = <<>>
       THEN [medications |-> medications]
       ELSE [duration |-> [numberOfDays |-> duration[1]], medications |-> medications]

Option(S) == {<<>>} \cup {<<x>> : x \in S}

CalendarInputs ==
    {JNull, JNum(5), JEmpty, JNoPhase1, JPhase1Empty}
      \cup {Regimen(CycleOf(duration, day1, day2)) :
              duration \in Option(0..MaxDays),
              day1 \in Option(Day1Schedules),
              day2 \in Option(Day2Schedules)}

InitCalendar ==
    /\ json_outputs = EmptyDict
    /\ fdb_validation = EmptyDict
    /\ uploaded_files = <<>>
    /\ fdb_client_id = ""
    /\ fdb_client_secret = ""
    /\ pc = "idle"
    /\ idx = 0
    /\ last = NoIteration
    /\ calls = <<>>
    /\ shown = <<>>
    /\ outcome = [d \in Docs |-> "Uploaded"]
    /\ healthy = {}
    /\ regimen_data \in CalendarInputs
    /\ svcA = <<>>
    /\ svcB = <<>>
    /\ retA = NotCalled
    /\ retB = NotCalled
    /\ vpc = "unused"
    /\ calendar = NotRendered

RenderCalendar ==
    /\ calendar = NotRendered
    /\ calendar' = Calendar(regimen_data)
    /\ UNCHANGED <<mainVars, validateVars>>

NextCalendar == RenderCalendar

SpecCalendar == InitCalendar /\ [][NextCalendar]_vars

(***************************************************************************)
(* Properties of the calendar                                              *)
(***************************************************************************)
\* The regimen has a phase1 cycle whose scheduled medications all carry a
\* name and a dose.
HasCalendarCycle(data) ==
    /\ data.t = "dict"
    /\ Has(data.v, "phase1")
    /\ Has(data.v["phase1"], "treatmentTemplate")
    /\ Has(data.v["phase1"]["treatmentTemplate"], "cycle")
    /\ \A m \in ScheduledMeds(data) : Has(m, "name") /\ Has(m, "dose")

CycleData(data) == data.v["phase1"]["treatmentTemplate"]["cycle"]

\* durationDays: the stated number of days, 28 when the reply states none.
DurationDays(cycle) ==
    IF Has(cycle, "duration") /\ Has(cycle["duration"], "numberOfDays")
    THEN cycle["duration"]["numberOfDays"]
    ELSE 28

DayKey(k) == CASE k = 1 -> "day1" [] k = 2 -> "day2" [] OTHER -> "unscheduled"

\* The chemotherapy and targetedTherapy medications scheduled for day k.
ScheduledFor(cycle, k) ==
    IF Has(cycle, "medications") /\ Has(cycle["medications"], DayKey(k))
    THEN Get(cycle["medications"][DayKey(k)], "chemotherapy", <<>>)
           \o Get(cycle["medications"][DayKey(k)], "targetedTherapy", <<>>)
    ELSE <<>>

\* C14: for a cycle of duration d >= 0 the calendar shows exactly d day
\* entries, numbered 1, 2, ..., d in this order; d is 28 when the reply states
\* no duration.
C14_OneEntryPerDay ==
    (calendar # NotRendered /\ HasCalendarCycle(regimen_data)) =>
        LET d == DurationDays(CycleData(regimen_data)) IN
        d >= 0 =>
            /\ Len(calendar.entries) = d
            /\ \A k \in 1..Len(calendar.entries) : calendar.entries[k].day = k

\* C15: the entry of every day k in 1..d lists the chemotherapy and
\* targetedTherapy medications scheduled for day k, and is empty, without an
\* error, when the schedule has no day k (day 1 included).
C15_EntryCarriesDaySchedule ==
    (calendar # NotRendered /\ HasCalendarCycle(regimen_data)) =>
        LET cycle == CycleData(regimen_data) IN
        /\ calendar.exc = "none"
        /\ \A k \in 1..Len(calendar.entries) :
              calendar.entries[k].meds = ScheduledFor(cycle, calendar.entries[k].day)

(***************************************************************************)
(* Properties of the order of the stages                                   *)
(***************************************************************************)
\* The iteration stored the parsed reply.
StoredNow == last.path \in {"stored", "validated", "validate_raised"}

\* How often a request occurs in a log.
Times(issued, request) == Cardinality({i \in DOMAIN issued : issued[i] = request})

FirstOccurrences(data) ==
    LET RECURSIVE Collect(_, _)
        Collect(i, names) ==
            IF i > Len(AllMeds(data)) THEN names
            ELSE IF OccName(data, i) \in Range(names) THEN Collect(i + 1, names)
                 ELSE Collect(i + 1, Append(names, OccName(data, i)))
    IN Collect(1, <<>>)

\* C17: the returned map lists its drug names in the order of their first
\* occurrence in the regimen (pretreatment, chemotherapy, targetedTherapy,
\* each in regimen order), and the calendar lists the medications of a day
\* in the regimen's within-group order.
C17_MedicationOrderPreserved ==
    (vpc = "returned" /\ retA.exc = "none") =>
        LET keys == ODKeys(retA.validation_results)
            InMap(name) == name \in keys
        IN /\ retA.validation_results.order =
                 SelectSeq(FirstOccurrences(regimen_data), InMap)
           /\ (HasCalendarCycle(regimen_data) /\ HasDay1(regimen_data)) =>
                 Calendar(regimen_data).entries[1].meds =
                     ScheduledFor(CycleData(regimen_data), 1)

(***************************************************************************)
(* Properties of the session state over runs                               *)
(***************************************************************************)
\* C18: every file name with a stored enrichment result has a stored
\* regimen, and no step removes or replaces a stored regimen.
C18_SessionStateConsistent ==
    [][/\ DOMAIN fdb_validation' \subseteq DOMAIN json_outputs'
       /\ \A d \in DOMAIN json_outputs :
             d \in DOMAIN json_outputs' /\ json_outputs'[d] = json_outputs[d]]_vars

C18_Witness ==
    /\ pc = "idle"
    /\ DOMAIN json_outputs = Docs
    /\ DOMAIN fdb_validation = {"b.pdf"}
    /\ json_outputs["a.pdf"] = JEmpty
    /\ outcome["a.pdf"] = "Ready"

\* C19: knowledge-service requests are issued and an enrichment result is
\* stored only by the iteration that stores the file's regimen; a file whose
\* regimen is already stored is never enriched again, whatever the
\* credentials of the later run.
C19_EnrichedAtMostOnce ==
    [][/\ (idx' = idx + 1 /\ KnowledgeRequests(calls') # {}) =>
             (Current \notin DOMAIN json_outputs /\ Current \in DOMAIN json_outputs')
       /\ \A d \in DOMAIN json_outputs :
             /\ Stored(d).enrichment' = Stored(d).enrichment
             /\ (idx' = idx + 1 /\ InLoop /\ Current = d) => calls' = <<>>
       /\ \A d \in DOMAIN fdb_validation' \ DOMAIN fdb_validation :
             d \notin DOMAIN json_outputs]_vars

C19_Witness ==
    /\ last.path = "skipped"
    /\ outcome[last.file] = "Raised"
    /\ last.file \in DOMAIN json_outputs
    /\ last.file \notin DOMAIN fdb_validation
    /\ HaveCredentials(fdb_client_id, fdb_client_secret)

(***************************************************************************)
(* Properties of the returned mapping                                      *)
(***************************************************************************)
\* The regimen is empty (None or {}) or has no phase1.
EmptyOrNoPhase1(data) ==
    \/ data.t = "null"
    \/ data.t = "dict" /\ "phase1" \notin DOMAIN data.v

\* C20: the returned mapping has a key for a name exactly when the search of
\* some day-1 occurrence of that name returned an item; every entry carries
\* drug_info; for an empty regimen or one without phase1 the empty mapping is
\* returned and no request is issued.
C20_KeysAreResolvedNames ==
    vpc = "returned" =>
        /\ retA.exc = "none" =>
              /\ ODKeys(retA.validation_results) =
                    {OccName(regimen_data, i) :
                        i \in {j \in 1..Len(AllMeds(regimen_data)) : svcA[j].search = "hit"}}
              /\ \A name \in ODKeys(retA.validation_results) :
                    Has(retA.validation_results.entry[name], "drug_info")
        /\ EmptyOrNoPhase1(regimen_data) => retA = Returned(EmptyOD, <<>>)

C20_Witness ==
    /\ vpc = "returned"
    /\ regimen_data = RegimenThree
    /\ svcA[1].search = "error"
    /\ svcA[2].search = "zero"
    /\ svcA[3].search = "hit"
    /\ retA.exc = "none"
    /\ ODKeys(retA.validation_results) = {"Docetaxel"}

====
